---- MODULE Spec2Model ----
(***************************************************************************)
(* Model of aklog-kafs.c: one run of main() from argument parsing to the   *)
(* add_key() call, with derive_key(), des3_key_to_random(),                *)
(* des3_strip_parity_bits() and key_derivation_function() translated       *)
(* statement by statement.  C offsets are kept 0-based: byte buffers are   *)
(* functions over 0..len-1.  The Kerberos library, HMAC() and the kernel   *)
(* keyring are the environment: their results are chosen by \E.            *)
(***************************************************************************)
EXTENDS Integers, Sequences, FiniteSets, TLC

VARIABLES pc, status, argc, argv, argvRead, cell, realm, princ, desc,
          creds, origKey, path, uw, sepOut, readsClean,
          kdf, lastHmac, payload, plen, keyring

vars == <<pc, status, argc, argv, argvRead, cell, realm, princ, desc,
          creds, origKey, path, uw, sepOut, readsClean,
          kdf, lastHmac, payload, plen, keyring>>

argVars == <<argc, argv, argvRead, cell, realm, princ, desc>>
keyVars == <<creds, origKey, path, uw, sepOut, readsClean>>
kdfVars == <<kdf, lastHmac>>
outVars == <<payload, plen, keyring>>

---------------------------------------------------------------------------
(* Bounds of the model.                                                    *)

MaxBlocks == 3
MinEnctypeMagnitude == 2
MaxEnctype == 17
TicketSmall == 5

---------------------------------------------------------------------------
(* Byte arithmetic.                                                        *)

Byte == 0..255

RECURSIVE BitAnd(_, _)
BitAnd(a, b) ==
    IF a = 0 \/ b = 0 THEN 0
    ELSE (a % 2) * (b % 2) + 2 * BitAnd(a \div 2, b \div 2)

RECURSIVE BitOr(_, _)
BitOr(a, b) ==
    IF a = 0 THEN b
    ELSE IF b = 0 THEN a
    ELSE (IF (a % 2) + (b % 2) > 0 THEN 1 ELSE 0) + 2 * BitOr(a \div 2, b \div 2)

ShiftRight1(x) == x \div 2

RECURSIVE PopCount(_)
PopCount(x) == IF x = 0 THEN 0 ELSE (x % 2) + PopCount(x \div 2)

Pow2(n) == IF n = 0 THEN 1 ELSE IF n = 1 THEN 2 ELSE IF n = 2 THEN 4
           ELSE IF n = 3 THEN 8 ELSE IF n = 4 THEN 16 ELSE IF n = 5 THEN 32
           ELSE IF n = 6 THEN 64 ELSE IF n = 7 THEN 128 ELSE 256

(* Bytes p..p+n-1 of buffer m, as the 0-based buffer 0..n-1. *)
Slice(m, p, n) == [q \in 0..(n - 1) |-> m[p + q]]

EmptyBuf == [q \in {} |-> 0]

---------------------------------------------------------------------------
(* C strings are sequences of character codes; the null pointer is NULL.   *)

NULL == << -1 >>

toupper(c) == IF c >= 97 /\ c <= 122 THEN c - 32 ELSE c
tolower(c) == IF c >= 65 /\ c <= 90 THEN c + 32 ELSE c

UpperStr(s) == [q \in 1..Len(s) |-> toupper(s[q])]
LowerStr(s) == [q \in 1..Len(s) |-> tolower(s[q])]

ProgName == <<97, 107, 108, 111, 103>>          \* "aklog"
CellArgs == { <<71, 46, 111, 82, 103>> }        \* "G.oRg"
RealmArgs == { <<82, 101, 46, 65>> }            \* "Re.A"
ExtraArg == <<120>>                             \* "x"
GarbageStrings == { <<63>> }                    \* what a wild read may yield

(* The argument vectors exec can hand to main: argv[argc] is the null      *)
(* pointer.  argv is 0-based: ArgvAt(v, n) is argv[n].                     *)
ArgVectors ==
    { <<ProgName, NULL>> }
    \cup { <<ProgName, c, NULL>> : c \in CellArgs }
    \cup { <<ProgName, c, r, NULL>> : c \in CellArgs, r \in RealmArgs }
    \cup { <<ProgName, c, r, ExtraArg, NULL>> : c \in CellArgs, r \in RealmArgs }

ArgvAt(v, n) == v[n + 1]

PrincPrefix == <<97, 102, 115, 47>>             \* "afs/"
DescPrefix == <<97, 102, 115, 64>>              \* "afs@"
AtSign == <<64>>

---------------------------------------------------------------------------
(* Kerberos enctype numbers named by the switch in derive_key().           *)

ENCTYPE_NULL == 0
ENCTYPE_DES_CBC_CRC == 1
ENCTYPE_DES_CBC_MD4 == 2
ENCTYPE_DES_CBC_MD5 == 3
ENCTYPE_DES_CBC_RAW == 4
ENCTYPE_DES3_CBC_SHA == 5
ENCTYPE_DES3_CBC_RAW == 6
ENCTYPE_DES3_CBC_SHA1_OLD == 7
ENCTYPE_DES_HMAC_SHA1 == 8
ENCTYPE_DSA_SHA1_CMS == 9
ENCTYPE_MD5_RSA_CMS == 10
ENCTYPE_SHA1_RSA_CMS == 11
ENCTYPE_RC2_CBC_ENV == 12
ENCTYPE_RSA_ENV == 13
ENCTYPE_RSA_ES_OAEP_ENV == 14
ENCTYPE_DES3_CBC_ENV == 15
ENCTYPE_DES3_CBC_SHA1 == 16

RXKAD_TKT_TYPE_KERBEROS_V5 == 256
HeaderSize == 24
U16 == 65536

---------------------------------------------------------------------------
(* What the credential source may return.                                  *)

Enctypes == (0 - MinEnctypeMagnitude)..MaxEnctype
KeyLengths == 0..(8 * MaxBlocks + 1)
BlockLengths == { 8 * n : n \in 0..MaxBlocks }

(* Key patterns: a well-formed DES key, a key with even-parity bytes, and  *)
(* the weak key 01 01 01 01 01 01 01 01.                                   *)
KeyBase(seed) ==
    IF seed = 1 THEN <<1, 35, 69, 103, 137, 171, 205, 239>>
    ELSE IF seed = 2 THEN <<0, 51, 85, 102, 153, 170, 204, 165>>
    ELSE <<1, 1, 1, 1, 1, 1, 1, 1>>
KeySeeds == {1, 2, 3}

KeyContents(seed, len) ==
    [q \in 0..(len - 1) |-> (KeyBase(seed)[(q % 8) + 1] + 18 * (q \div 8)) % 256]

TicketLengths == { TicketSmall, U16 - 1, U16 + TicketSmall }
(* End times are non-negative krb5_timestamp values: below 2^31, where the  *)
(* conversion to the uint32_t expiry field keeps the value.                *)
EndTimes == { 1700000000 }

MkCreds(e, l, s, n, t) ==
    [ enctype |-> e, length |-> l, contents |-> KeyContents(s, l),
      ticket |-> [length |-> n, tag |-> 1], endtime |-> t ]

DetailEnctypes ==
    { ENCTYPE_DES_CBC_CRC, ENCTYPE_DES3_CBC_SHA, ENCTYPE_DES3_CBC_SHA1, MaxEnctype }

(* Every enctype with every key length; every key pattern on the paths    *)
(* that read the key bytes; every ticket length on the shortest path.      *)
CredsInputs ==
    { MkCreds(e, l, 1, TicketSmall, t) : e \in Enctypes, l \in KeyLengths, t \in EndTimes }
    \cup { MkCreds(e, l, s, TicketSmall, t) : e \in DetailEnctypes, l \in BlockLengths,
                                              s \in KeySeeds, t \in EndTimes }
    \cup { MkCreds(ENCTYPE_DES_CBC_CRC, 8, s, n, t) : s \in KeySeeds, n \in TicketLengths,
                                                      t \in EndTimes }

NoCreds == MkCreds(0, 0, 1, 0, 0)

---------------------------------------------------------------------------
(* des3_strip_parity_bits(): one loop iteration, and the whole function.   *)

(* A stripper that forgets to clear the parity bit.                        *)
StripByteKeepsParity(kb, lsbs) == BitOr(kb, BitAnd(lsbs, 1))

StripByte(kb, lsbs) == BitOr(BitAnd(kb, 254), BitAnd(lsbs, 1))

RECURSIVE StripFrom(_, _, _, _)
StripFrom(k, i, lsbs, r) ==
    IF i < 7
    THEN StripFrom(k, i + 1, ShiftRight1(lsbs), [r EXCEPT ![i] = StripByte(k[i], lsbs)])
    ELSE r

des3_strip_parity_bits(k) ==
    StripFrom(k, 0, ShiftRight1(k[7]), [q \in 0..6 |-> 0])

(* des3_key_to_random(): the pointer and length updates after one block,   *)
(* and the loop test.                                                      *)
(* An unweaver with the two strides exchanged.                             *)
NextBlockSwapped(u) ==
    [u EXCEPT !.key = @ + 7, !.random = @ + 8, !.len = @ - 8, !.new_len = @ + 7,
              !.i = 0]

NextBlock(u) ==
    [u EXCEPT !.key = @ + 8, !.random = @ + 7, !.len = @ - 8, !.new_len = @ + 7,
              !.i = 0]

MoreBlocks(len) == len > 8

---------------------------------------------------------------------------
(* The switch of derive_key(): the label it jumps to.                      *)

(* A default arm without the length test, and one without the sign test.  *)
DefaultLabelNoLengthTest(enctype, length) ==
    IF enctype < 0 THEN "not_supported" ELSE "derive_key"

DefaultLabelNoSignTest(enctype, length) ==
    IF length < 7 THEN "key_too_short" ELSE "derive_key"

(* The default arm.                                                        *)
DefaultLabel(enctype, length) ==
    IF length < 7 THEN "key_too_short"
    ELSE IF enctype < 0 THEN "not_supported"
    ELSE "derive_key"

SwitchLabel(enctype, length) ==
    CASE enctype = ENCTYPE_NULL -> "not_supported"
      [] enctype = ENCTYPE_DES_CBC_CRC -> "just_copy"
      [] enctype = ENCTYPE_DES_CBC_MD4 -> "just_copy"
      [] enctype = ENCTYPE_DES_CBC_MD5 -> "just_copy"
      [] enctype = ENCTYPE_DES_CBC_RAW -> "deprecated"
      [] enctype = ENCTYPE_DES3_CBC_SHA -> "des3_discard_parity"
      [] enctype = ENCTYPE_DES3_CBC_RAW -> "deprecated"
      [] enctype = ENCTYPE_DES3_CBC_SHA1_OLD -> "des3_discard_parity"
      [] enctype = ENCTYPE_DES_HMAC_SHA1 -> "deprecated"
      [] enctype = ENCTYPE_DSA_SHA1_CMS -> "not_supported"
      [] enctype = ENCTYPE_MD5_RSA_CMS -> "not_supported"
      [] enctype = ENCTYPE_SHA1_RSA_CMS -> "not_supported"
      [] enctype = ENCTYPE_RC2_CBC_ENV -> "not_supported"
      [] enctype = ENCTYPE_RSA_ENV -> "not_supported"
      [] enctype = ENCTYPE_RSA_ES_OAEP_ENV -> "not_supported"
      [] enctype = ENCTYPE_DES3_CBC_ENV -> "not_supported"
      [] enctype = ENCTYPE_DES3_CBC_SHA1 -> "des3_discard_parity"
      [] OTHER -> DefaultLabel(enctype, length)

---------------------------------------------------------------------------
(* key_derivation_function(): its input string and the OpenSSL DES helpers *)
(* it calls.                                                               *)

KdfLoopLast == 255
MD5_DIGEST_LENGTH == 16
DesBlockLength == 8

Label == <<114, 120, 107, 97, 100, 0>>          \* "rxkad" and its NUL
L_2 == <<0, 0, 0, 64>>

KdfData(i) == <<i % 256>> \o Label \o L_2

OddParityByte(x) ==
    LET hi == x - (x % 2)
    IN  IF PopCount(hi) % 2 = 0 THEN hi + 1 ELSE hi

(* DES_set_odd_parity on the DES_cblock overlaying the first 8 bytes.      *)
DES_set_odd_parity(buf) ==
    [q \in DOMAIN buf |-> IF q < DesBlockLength THEN OddParityByte(buf[q]) ELSE buf[q]]

WeakKeys ==
    { <<1, 1, 1, 1, 1, 1, 1, 1>>,
      <<254, 254, 254, 254, 254, 254, 254, 254>>,
      <<31, 31, 31, 31, 14, 14, 14, 14>>,
      <<224, 224, 224, 224, 241, 241, 241, 241>>,
      <<1, 254, 1, 254, 1, 254, 1, 254>>,
      <<254, 1, 254, 1, 254, 1, 254, 1>>,
      <<31, 224, 31, 224, 14, 241, 14, 241>>,
      <<224, 31, 224, 31, 241, 14, 241, 14>>,
      <<1, 224, 1, 224, 1, 241, 1, 241>>,
      <<224, 1, 224, 1, 241, 1, 241, 1>>,
      <<31, 254, 31, 254, 14, 254, 14, 254>>,
      <<254, 31, 254, 31, 254, 14, 254, 14>>,
      <<1, 31, 1, 31, 1, 14, 1, 14>>,
      <<31, 1, 31, 1, 14, 1, 14, 1>>,
      <<224, 254, 224, 254, 241, 254, 241, 254>>,
      <<254, 224, 254, 224, 254, 241, 254, 241>> }

DesKeyOf(buf) == [q \in 1..DesBlockLength |-> buf[q - 1]]

DES_is_weak_key(buf) == DesKeyOf(buf) \in WeakKeys

(* The 16-byte digests HMAC-MD5 may return in the model: two whose first   *)
(* 8 bytes become a weak and a semi-weak key once parity is set, and one   *)
(* that does not.                                                          *)
DigestOf(a, b) == [q \in 0..(MD5_DIGEST_LENGTH - 1) |-> IF q % 2 = 0 THEN a ELSE b]
Digests == { DigestOf(0, 0), DigestOf(0, 255), DigestOf(18, 52) }

---------------------------------------------------------------------------
(* Initial state: main() is entered with one of the argument vectors.      *)

ZeroKey == [q \in 0..(DesBlockLength - 1) |-> 0]
NoTicket == [length |-> 0, tag |-> 0]

ZeroPayload ==
    [ kver |-> 0, security_index |-> 0, ticket_length |-> 0, expiry |-> 0,
      kvno |-> 0, session_key |-> ZeroKey, ticket |-> NoTicket ]

NoUnweave ==
    [ key |-> 0, random |-> 0, len |-> 0, new_len |-> 0, i |-> 0, lsbs |-> 0,
      sepLsbs |-> 0, written |-> {} ]

NoKdf == [ i |-> 0, buf |-> DigestOf(0, 0), len |-> 0, weak |-> 0, calls |-> 0,
           hmacFailed |-> FALSE ]
NoHmac == [ key |-> EmptyBuf, keylen |-> 0, msg |-> <<>>, ok |-> FALSE,
            out |-> DigestOf(0, 0) ]

Init ==
    /\ pc = "main"
    /\ status = -1
    /\ argv \in ArgVectors
    /\ argc = Len(argv) - 1
    /\ argvRead = -1
    /\ cell = NULL
    /\ realm = NULL
    /\ princ = NULL
    /\ desc = NULL
    /\ creds = NoCreds
    /\ origKey = EmptyBuf
    /\ path = "none"
    /\ uw = NoUnweave
    /\ sepOut = EmptyBuf
    /\ readsClean = TRUE
    /\ kdf = NoKdf
    /\ lastHmac = NoHmac
    /\ payload = ZeroPayload
    /\ plen = 0
    /\ keyring = <<>>

(* exit(code), or death by signal: the run is over.                        *)
Exit(code) == pc' = "exited" /\ status' = code

---------------------------------------------------------------------------
(* main(): arguments, cell and realm.                                      *)

(* Which argv index the realm is taken from when argc == 3.                *)
RealmArgIndex == 3

CheckArgs ==
    /\ pc = "main"
    /\ IF argc < 2 \/ argc > 3
       THEN Exit(1)
       ELSE pc' = "set_realm" /\ status' = status
    /\ UNCHANGED <<argVars, keyVars, kdfVars, outVars>>

(* cell = argv[1]; argc == 3: realm = strdup(argv[3]).  strdup copies the  *)
(* string the pointer names; strdup() of a null pointer is undefined, and  *)
(* then the run goes on with whatever bytes the wild read found ...        *)
SetRealmFromArg ==
    /\ pc = "set_realm"
    /\ argc = 3
    /\ cell' = ArgvAt(argv, 1)
    /\ argvRead' = RealmArgIndex
    /\ \E r \in (IF ArgvAt(argv, RealmArgIndex) # NULL
                 THEN {ArgvAt(argv, RealmArgIndex)}
                 ELSE GarbageStrings) : realm' = r
    /\ pc' = "lower_cell"
    /\ UNCHANGED <<status, argc, argv, princ, desc, keyVars, kdfVars, outVars>>

(* ... or the process dies of SIGSEGV.                                     *)
SetRealmNullCrash ==
    /\ pc = "set_realm"
    /\ argc = 3
    /\ ArgvAt(argv, RealmArgIndex) = NULL
    /\ cell' = ArgvAt(argv, 1)
    /\ argvRead' = RealmArgIndex
    /\ Exit(139)
    /\ UNCHANGED <<argc, argv, realm, princ, desc, keyVars, kdfVars, outVars>>

(* argc == 2: realm = strdup(cell), upper-cased.                           *)
SetRealmFromCell ==
    /\ pc = "set_realm"
    /\ argc # 3
    /\ cell' = ArgvAt(argv, 1)
    /\ realm' = UpperStr(ArgvAt(argv, 1))
    /\ pc' = "lower_cell"
    /\ UNCHANGED <<status, argc, argv, argvRead, princ, desc, keyVars, kdfVars, outVars>>

(* strdup() returns NULL: OSZERROR exits.                                  *)
StrdupFails ==
    /\ pc = "set_realm"
    /\ cell' = ArgvAt(argv, 1)
    /\ argvRead' = IF argc = 3 THEN RealmArgIndex ELSE argvRead
    /\ Exit(1)
    /\ UNCHANGED <<argc, argv, realm, princ, desc, keyVars, kdfVars, outVars>>

(* cell points into argv[1]: lower-casing it rewrites the argument.        *)
LowerCell ==
    /\ pc = "lower_cell"
    /\ cell' = LowerStr(cell)
    /\ argv' = [argv EXCEPT ![2] = LowerStr(cell)]
    /\ pc' = "build_names"
    /\ UNCHANGED <<status, argc, argvRead, realm, princ, desc, keyVars, kdfVars, outVars>>

BuildNames ==
    /\ pc = "build_names"
    /\ princ' = PrincPrefix \o cell \o AtSign \o realm
    /\ desc' = DescPrefix \o cell
    /\ pc' = "krb5_setup"
    /\ UNCHANGED <<status, argc, argv, argvRead, cell, realm, keyVars, kdfVars, outVars>>

AsprintfFails ==
    /\ pc = "build_names"
    /\ Exit(1)
    /\ UNCHANGED <<argVars, keyVars, kdfVars, outVars>>

---------------------------------------------------------------------------
(* main(): the Kerberos calls.                                             *)

(* krb5_init_context .. krb5_parse_name all succeed.                       *)
KrbSetup ==
    /\ pc = "krb5_setup"
    /\ pc' = "get_credentials"
    /\ UNCHANGED <<status, argVars, keyVars, kdfVars, outVars>>

(* Any Kerberos call fails: KRBERROR exits.                                *)
KrbFails ==
    /\ pc \in {"krb5_setup", "get_credentials"}
    /\ Exit(1)
    /\ UNCHANGED <<argVars, keyVars, kdfVars, outVars>>

GetCredentials ==
    /\ pc = "get_credentials"
    /\ \E c \in CredsInputs :
          /\ creds' = c
          /\ origKey' = c.contents
    /\ pc' = "alloc_payload"
    /\ UNCHANGED <<status, argVars, path, uw, sepOut, readsClean, kdfVars, outVars>>

---------------------------------------------------------------------------
(* main(): the payload header.                                             *)

PayloadLength(n) == HeaderSize + n
TicketLengthField(n) == n % U16

AllocPayload ==
    /\ pc = "alloc_payload"
    /\ plen' = PayloadLength(creds.ticket.length)
    /\ payload' = ZeroPayload
    /\ pc' = "fill_header"
    /\ UNCHANGED <<status, argVars, keyVars, kdfVars, keyring>>

CallocFails ==
    /\ pc = "alloc_payload"
    /\ plen' = PayloadLength(creds.ticket.length)
    /\ Exit(1)
    /\ UNCHANGED <<argVars, keyVars, kdfVars, payload, keyring>>

FillHeader ==
    /\ pc = "fill_header"
    /\ payload' = [payload EXCEPT
                     !.kver = 1,
                     !.security_index = 2,
                     !.ticket_length = TicketLengthField(creds.ticket.length),
                     !.expiry = creds.endtime,
                     !.kvno = RXKAD_TKT_TYPE_KERBEROS_V5]
    /\ pc' = "derive_key_entry"
    /\ UNCHANGED <<status, argVars, keyVars, kdfVars, plen, keyring>>

---------------------------------------------------------------------------
(* derive_key().                                                           *)

(* The classification a label stands for.                                  *)
DeriveKeySwitch ==
    /\ pc = "derive_key_entry"
    /\ pc' = SwitchLabel(creds.enctype, creds.length)
    /\ path' = IF SwitchLabel(creds.enctype, creds.length) = "derive_key"
               THEN "DeriveDirect" ELSE "pending"
    /\ uw' = [NoUnweave EXCEPT !.len = creds.length]
    /\ UNCHANGED <<status, argVars, creds, origKey, sepOut, readsClean, kdfVars, outVars>>

NotSupported ==
    /\ pc = "not_supported"
    /\ path' = "Unsupported"
    /\ Exit(1)
    /\ UNCHANGED <<argVars, creds, origKey, uw, sepOut, readsClean, kdfVars, outVars>>

Deprecated ==
    /\ pc = "deprecated"
    /\ path' = "Deprecated"
    /\ Exit(1)
    /\ UNCHANGED <<argVars, creds, origKey, uw, sepOut, readsClean, kdfVars, outVars>>

KeyTooShort ==
    /\ pc = "key_too_short"
    /\ path' = "KeyTooShort"
    /\ Exit(1)
    /\ UNCHANGED <<argVars, creds, origKey, uw, sepOut, readsClean, kdfVars, outVars>>

(* just_copy: memcpy(session_key, contents, length) when length == 8.      *)
JustCopy ==
    /\ pc = "just_copy"
    /\ IF uw.len # 8
       THEN /\ path' = "InvalidKeyLength"
            /\ Exit(1)
            /\ payload' = payload
       ELSE /\ path' = "Copy"
            /\ payload' = [payload EXCEPT !.session_key = Slice(creds.contents, 0, uw.len)]
            /\ pc' = "copy_ticket"
            /\ status' = status
    /\ UNCHANGED <<argVars, creds, origKey, uw, sepOut, readsClean, kdfVars, plen, keyring>>

(* des3_discard_parity: the length test, then the call of                  *)
(* des3_key_to_random(contents, contents, length).                         *)
Des3DiscardParity ==
    /\ pc = "des3_discard_parity"
    /\ IF BitAnd(uw.len, 7) # 0
       THEN /\ path' = "InvalidKeyLength"
            /\ Exit(1)
            /\ UNCHANGED <<uw, sepOut>>
       ELSE /\ path' = "Unweave"
            /\ uw' = [NoUnweave EXCEPT !.len = creds.length]
            /\ sepOut' = [q \in 0..(creds.length - 1) |-> 0]
            /\ pc' = "des3_loop"
            /\ status' = status
    /\ UNCHANGED <<argVars, creds, origKey, readsClean, kdfVars, outVars>>

(* while (len > 8): enter des3_strip_parity_bits(random, key), whose first *)
(* statement is lsbs = k[7] >> 1.                                          *)
Des3LoopEnter ==
    /\ pc = "des3_loop"
    /\ MoreBlocks(uw.len)
    /\ uw' = [uw EXCEPT !.lsbs = ShiftRight1(creds.contents[uw.key + 7]),
                        !.sepLsbs = ShiftRight1(origKey[uw.key + 7]),
                        !.i = 0]
    /\ readsClean' = (readsClean /\ (uw.key + 7) \notin uw.written)
    /\ pc' = "strip_loop"
    /\ UNCHANGED <<status, argVars, creds, origKey, path, sepOut, kdfVars, outVars>>

(* Loop exit: return new_len, stored into creds->keyblock.length.          *)
Des3LoopExit ==
    /\ pc = "des3_loop"
    /\ ~MoreBlocks(uw.len)
    /\ creds' = [creds EXCEPT !.length = uw.new_len]
    /\ pc' = "derive_key"
    /\ UNCHANGED <<status, argVars, origKey, path, uw, sepOut, readsClean, kdfVars, outVars>>

(* r[i] = (k[i] & 0xfe) | (lsbs & 0x1); lsbs >>= 1;  in place on the key   *)
(* block, and beside it into a separate output buffer from the original.   *)
StripLoopStep ==
    /\ pc = "strip_loop"
    /\ uw.i < 7
    /\ creds' = [creds EXCEPT !.contents[uw.random + uw.i] =
                                 StripByte(creds.contents[uw.key + uw.i], uw.lsbs)]
    /\ sepOut' = [sepOut EXCEPT ![uw.random + uw.i] =
                                 StripByte(origKey[uw.key + uw.i], uw.sepLsbs)]
    /\ readsClean' = (readsClean /\ (uw.key + uw.i) \notin uw.written)
    /\ uw' = [uw EXCEPT !.lsbs = ShiftRight1(@), !.sepLsbs = ShiftRight1(@),
                        !.i = @ + 1,
                        !.written = @ \cup {uw.random + uw.i}]
    /\ UNCHANGED <<pc, status, argVars, origKey, path, kdfVars, outVars>>

(* des3_strip_parity_bits returns; key += 8, random += 7, len -= 8,        *)
(* new_len += 7.                                                           *)
StripReturn ==
    /\ pc = "strip_loop"
    /\ uw.i >= 7
    /\ uw' = NextBlock(uw)
    /\ pc' = "des3_loop"
    /\ UNCHANGED <<status, argVars, creds, origKey, path, sepOut, readsClean, kdfVars, outVars>>

---------------------------------------------------------------------------
(* key_derivation_function().                                              *)

(* derive_key: the call.  buf is an uninitialised local: it holds          *)
(* arbitrary bytes until HMAC() writes it.                                 *)
KdfEntry ==
    /\ pc = "derive_key"
    /\ \E junk \in Digests : kdf' = [NoKdf EXCEPT !.i = 1, !.buf = junk]
    /\ pc' = "kdf_loop"
    /\ UNCHANGED <<status, argVars, keyVars, lastHmac, outVars>>

(* The HMAC() call of iteration i, as the environment sees it.             *)
HmacCall(i, ok, out) ==
    [ key |-> Slice(creds.contents, 0, creds.length), keylen |-> creds.length,
      msg |-> KdfData(i), ok |-> ok, out |-> out ]

(* A loop that takes the first candidate, weak or not.                     *)
KdfAcceptsAny(buf) == TRUE

(* if (!DES_is_weak_key(&buf.des)) goto success;                           *)
KdfAccepts(buf) == ~DES_is_weak_key(buf)

(* The rest of the loop body once buf and len are what HMAC() left:        *)
(* DES_set_odd_parity, the weak-key test, and either the memcpy into       *)
(* session_key at success: or i++.                                         *)
KdfRest(buf, failed) ==
    LET b == DES_set_odd_parity(buf)
    IN  IF KdfAccepts(b)
        THEN /\ kdf' = [kdf EXCEPT !.buf = b, !.calls = @ + 1,
                                   !.hmacFailed = @ \/ failed]
             /\ payload' = [payload EXCEPT !.session_key = Slice(b, 0, DesBlockLength)]
             /\ pc' = "copy_ticket"
        ELSE /\ kdf' = [kdf EXCEPT !.buf = b, !.calls = @ + 1, !.i = @ + 1,
                                   !.weak = @ + 1, !.hmacFailed = @ \/ failed]
             /\ payload' = payload
             /\ pc' = pc

(* HMAC() succeeds and writes a 16-byte digest.                            *)
KdfHmacOk ==
    /\ pc = "kdf_loop"
    /\ kdf.i <= KdfLoopLast
    /\ \E d \in Digests :
          /\ lastHmac' = HmacCall(kdf.i, TRUE, d)
          /\ KdfRest(d, FALSE)
    /\ UNCHANGED <<status, argVars, keyVars, plen, keyring>>

(* HMAC() fails with an error queued: crypto_error() reports it and exits. *)
KdfHmacError ==
    /\ pc = "kdf_loop"
    /\ kdf.i <= KdfLoopLast
    /\ lastHmac' = HmacCall(kdf.i, FALSE, kdf.buf)
    /\ kdf' = [kdf EXCEPT !.calls = @ + 1, !.hmacFailed = TRUE]
    /\ Exit(1)
    /\ UNCHANGED <<argVars, keyVars, outVars>>

(* HMAC() fails with the error queue empty: crypto_error() returns at its  *)
(* ERR_peek_error() == 0 test, len is still sizeof(buf.md5), and the loop  *)
(* body goes on with the bytes buf already held.                           *)
KdfHmacFailsSilently ==
    /\ pc = "kdf_loop"
    /\ kdf.i <= KdfLoopLast
    /\ lastHmac' = HmacCall(kdf.i, FALSE, kdf.buf)
    /\ KdfRest(kdf.buf, TRUE)
    /\ UNCHANGED <<status, argVars, keyVars, plen, keyring>>

(* HMAC() reports fewer than sizeof(buf.des) bytes: exit.                  *)
KdfHmacShort ==
    /\ pc = "kdf_loop"
    /\ kdf.i <= KdfLoopLast
    /\ lastHmac' = HmacCall(kdf.i, TRUE, kdf.buf)
    /\ kdf' = [kdf EXCEPT !.calls = @ + 1, !.len = DesBlockLength - 1,
                          !.hmacFailed = TRUE]
    /\ Exit(1)
    /\ UNCHANGED <<argVars, keyVars, outVars>>

(* The loop ran out: "Unable to derive strong DES key".                    *)
KdfExhausted ==
    /\ pc = "kdf_loop"
    /\ kdf.i > KdfLoopLast
    /\ Exit(1)
    /\ UNCHANGED <<argVars, keyVars, kdfVars, outVars>>

---------------------------------------------------------------------------
(* main(): the ticket copy and the key-store call.                         *)

(* memcpy(payload->ticket, creds->ticket.data, creds->ticket.length)       *)
CopyTicket ==
    /\ pc = "copy_ticket"
    /\ payload' = [payload EXCEPT !.ticket = [length |-> creds.ticket.length,
                                              tag |-> creds.ticket.tag]]
    /\ pc' = "add_key"
    /\ UNCHANGED <<status, argVars, keyVars, kdfVars, plen, keyring>>

(* add_key("rxrpc", desc, payload, plen, KEY_SPEC_SESSION_KEYRING)         *)
AddKeyCall(ret) ==
    [ type |-> "rxrpc", desc |-> desc, payload |-> payload, plen |-> plen, ret |-> ret ]

AddKey ==
    /\ pc = "add_key"
    /\ keyring' = Append(keyring, AddKeyCall(0))
    /\ Exit(0)
    /\ UNCHANGED <<argVars, keyVars, kdfVars, payload, plen>>

AddKeyFails ==
    /\ pc = "add_key"
    /\ keyring' = Append(keyring, AddKeyCall(-1))
    /\ Exit(1)
    /\ UNCHANGED <<argVars, keyVars, kdfVars, payload, plen>>

---------------------------------------------------------------------------

Next ==
    \/ CheckArgs
    \/ SetRealmFromArg
    \/ SetRealmNullCrash
    \/ SetRealmFromCell
    \/ StrdupFails
    \/ LowerCell
    \/ BuildNames
    \/ AsprintfFails
    \/ KrbSetup
    \/ KrbFails
    \/ GetCredentials
    \/ AllocPayload
    \/ CallocFails
    \/ FillHeader
    \/ DeriveKeySwitch
    \/ NotSupported
    \/ Deprecated
    \/ KeyTooShort
    \/ JustCopy
    \/ Des3DiscardParity
    \/ Des3LoopEnter
    \/ Des3LoopExit
    \/ StripLoopStep
    \/ StripReturn
    \/ KdfEntry
    \/ KdfHmacOk
    \/ KdfHmacError
    \/ KdfHmacFailsSilently
    \/ KdfHmacShort
    \/ KdfExhausted
    \/ CopyTicket
    \/ AddKey
    \/ AddKeyFails

Spec == Init /\ [][Next]_vars

---------------------------------------------------------------------------
(* The unweaver alone: des3_discard_parity entered with key blocks whose   *)
(* reservoir byte k[7] ranges over every byte value.                       *)

UnweaveKey(seed, k7, len) ==
    [q \in 0..(len - 1) |->
        IF q % 8 = 7 THEN (k7 + 18 * (q \div 8)) % 256
        ELSE (KeyBase(seed)[(q % 8) + 1] + 18 * (q \div 8)) % 256]

UnweaveInputs ==
    { [ enctype |-> ENCTYPE_DES3_CBC_SHA1, length |-> l,
        contents |-> UnweaveKey(s, k7, l),
        ticket |-> [length |-> TicketSmall, tag |-> 1], endtime |-> 0 ] :
      s \in KeySeeds, k7 \in Byte, l \in BlockLengths \cup {8 * MaxBlocks + 1} }

InitUnweave ==
    /\ pc = "des3_discard_parity"
    /\ status = -1
    /\ argv = <<ProgName, ProgName, NULL>>
    /\ argc = 2
    /\ argvRead = -1
    /\ cell = ProgName
    /\ realm = UpperStr(ProgName)
    /\ princ = PrincPrefix \o ProgName \o AtSign \o UpperStr(ProgName)
    /\ desc = DescPrefix \o ProgName
    /\ creds \in UnweaveInputs
    /\ origKey = creds.contents
    /\ path = "pending"
    /\ uw = [NoUnweave EXCEPT !.len = creds.length]
    /\ sepOut = EmptyBuf
    /\ readsClean = TRUE
    /\ kdf = NoKdf
    /\ lastHmac = NoHmac
    /\ payload = ZeroPayload
    /\ plen = HeaderSize + TicketSmall
    /\ keyring = <<>>

NextUnweave ==
    \/ Des3DiscardParity
    \/ Des3LoopEnter
    \/ Des3LoopExit
    \/ StripLoopStep
    \/ StripReturn

SpecUnweave == InitUnweave /\ [][NextUnweave]_vars

---------------------------------------------------------------------------
(* Properties.                                                             *)

OrigLen == Cardinality(DOMAIN origKey)
Decided == path \notin {"none", "pending"}
Rejections == {"InvalidKeyLength", "Unsupported", "Deprecated", "KeyTooShort"}
InUnweave == pc \in {"des3_discard_parity", "des3_loop", "strip_loop"}
Bit(x, n) == (x \div Pow2(n)) % 2
FlipLow(x) == IF x % 2 = 0 THEN x + 1 ELSE x - 1
OddParityKey(k) == \A q \in DOMAIN k : PopCount(k[q]) % 2 = 1
IsDesKey(k) == DOMAIN k = 0..7 /\ \A q \in DOMAIN k : k[q] \in Byte
KeyRingCalls == { keyring[n] : n \in 1..Len(keyring) }

(* C1: once the Triple-DES unweaver has returned, the key-block length is  *)
(* 7 * floor(original length / 8): every 8-byte block was processed, so a  *)
(* 24-byte key gives 21 bytes and a 16-byte key 14.                        *)
C1_UnweaveLength ==
    (path = "Unweave" /\ ~InUnweave) =>
        /\ creds.length = 7 * (OrigLen \div 8)
        /\ uw.len = 0

(* C2: for every enctype >= 0 and every key length, derive_key takes the   *)
(* path of the section 4.1 table; a rejected key never reaches the KDF and *)
(* ends the run with status 1; on DeriveDirect the HMAC key is the key     *)
(* block unchanged.                                                        *)
TablePath(e, l) ==
    IF e \in {1, 2, 3} THEN (IF l = 8 THEN "Copy" ELSE "InvalidKeyLength")
    ELSE IF e \in {5, 7, 16} THEN (IF l % 8 = 0 THEN "Unweave" ELSE "InvalidKeyLength")
    ELSE IF e \in {4, 6, 8} THEN "Deprecated"
    ELSE IF e \in {0} \cup (9..15) THEN "Unsupported"
    ELSE IF l >= 7 THEN "DeriveDirect"
    ELSE "KeyTooShort"

C2_PolicyTable ==
    (Decided /\ creds.enctype >= 0) =>
        /\ path = TablePath(creds.enctype, OrigLen)
        /\ path \in Rejections =>
              pc = "exited" /\ status = 1 /\ kdf.calls = 0 /\ keyring = <<>>
        /\ (path = "DeriveDirect" /\ kdf.calls > 0) =>
              lastHmac.key = origKey /\ lastHmac.keylen = OrigLen
        /\ path = "Copy" => kdf.calls = 0

C2_Witness ==
    /\ path = "DeriveDirect"
    /\ creds.enctype = 17
    /\ OrigLen = 7
    /\ kdf.calls > 0

(* C3 as stated: every negative enctype is classified Unsupported whatever *)
(* the key length, never KeyTooShort, and never reaches the KDF.           *)
C3_NegativeUnsupported ==
    (Decided /\ creds.enctype < 0) => (path = "Unsupported" /\ kdf.calls = 0)

(* C3 as amended: every negative enctype is rejected and never reaches the *)
(* KDF: KeyTooShort when the key length is below 7 (the length is tested   *)
(* first), Unsupported otherwise; the run ends with status 1 and no        *)
(* session key is written.                                                 *)
C3_NegativeRejected ==
    creds.enctype < 0 =>
        /\ pc \notin {"derive_key", "kdf_loop", "just_copy", "des3_discard_parity",
                      "des3_loop", "strip_loop", "copy_ticket", "add_key"}
        /\ kdf.calls = 0
        /\ payload.session_key = ZeroKey
        /\ keyring = <<>>
        /\ Decided =>
              /\ path = (IF OrigLen < 7 THEN "KeyTooShort" ELSE "Unsupported")
              /\ pc = "exited"
              /\ status = 1

C3_Witness ==
    creds.enctype = -1 /\ OrigLen = 5 /\ path = "KeyTooShort" /\ pc = "exited"

(* C4: the KDF tries i = 1, 2, ..., 255 in order and returns the odd-parity *)
(* first 8 bytes of HMAC-MD5(key, i || "rxkad\0" || 00 00 00 40) for the   *)
(* smallest i whose candidate is not weak; the returned key has odd parity *)
(* and is not weak; with no such i it ends in the fatal error without      *)
(* writing a session key.                                                  *)
C4_KdfContract ==
    /\ kdf.i <= KdfLoopLast + 1
    /\ (path \in {"Unweave", "DeriveDirect"} /\ pc \in {"copy_ticket", "add_key"}) =>
          /\ kdf.i \in 1..255
          /\ kdf.i = kdf.weak + 1
          /\ kdf.calls = kdf.i
          /\ lastHmac.ok
          /\ lastHmac.msg = <<kdf.i, 114, 120, 107, 97, 100, 0, 0, 0, 0, 64>>
          /\ payload.session_key = Slice(DES_set_odd_parity(lastHmac.out), 0, 8)
          /\ OddParityKey(payload.session_key)
          /\ DesKeyOf(payload.session_key) \notin WeakKeys
    /\ (pc = "exited" /\ kdf.i > 255) =>
          /\ status = 1
          /\ kdf.weak = 255
          /\ payload.session_key = ZeroKey
          /\ keyring = <<>>

(* C5: add_key is called at most once, only after derive_key returned      *)
(* successfully and the ticket was copied; on every failure condition      *)
(* (InvalidKeyLength, Unsupported, Deprecated, KeyTooShort,                *)
(* CryptoPrimitiveFailure, KdfExhausted) the run ends with non-zero status *)
(* and add_key is never called.                                            *)
FailureOccurred ==
    \/ path \in Rejections
    \/ kdf.hmacFailed
    \/ (kdf.i > KdfLoopLast /\ pc # "kdf_loop")

C5_SinkOnlyAfterSuccess ==
    /\ Len(keyring) <= 1
    /\ \A call \in KeyRingCalls :
          /\ path \in {"Copy", "Unweave", "DeriveDirect"}
          /\ call.payload.ticket = creds.ticket
    /\ FailureOccurred => (keyring = <<>> /\ (pc = "exited" => status # 0))

(* C6 as stated: every session key handed to the key store is 8 bytes, has *)
(* odd parity in every byte and is not weak or semi-weak, whichever path   *)
(* produced it.                                                            *)
C6_SessionKeyStrong ==
    \A call \in KeyRingCalls :
        /\ IsDesKey(call.payload.session_key)
        /\ OddParityKey(call.payload.session_key)
        /\ DesKeyOf(call.payload.session_key) \notin WeakKeys

(* C6 as amended: every session key handed to the key store is 8 bytes;    *)
(* one produced by the KDF (Unweave, DeriveDirect) has odd parity in every *)
(* byte and is not weak or semi-weak; one produced by Copy is the 8        *)
(* key-block bytes as the credential source gave them.                     *)
C6_SessionKeyByPath ==
    \A call \in KeyRingCalls :
        /\ IsDesKey(call.payload.session_key)
        /\ path \in {"Copy", "Unweave", "DeriveDirect"}
        /\ path \in {"Unweave", "DeriveDirect"} =>
              /\ OddParityKey(call.payload.session_key)
              /\ DesKeyOf(call.payload.session_key) \notin WeakKeys
        /\ path = "Copy" => call.payload.session_key = origKey

C6_Witness ==
    /\ keyring # <<>>
    /\ path = "Unweave"
    /\ kdf.weak > 0
    /\ OddParityKey(keyring[1].payload.session_key)

(* C7: the record handed to the key store has kver 1, security_index 2,    *)
(* kvno 256, expiry the ticket end time, ticket_length equal to the ticket *)
(* length N, then the N ticket bytes; the length passed is 24 + N; for     *)
(* every N, above 65535 included.                                          *)
C7_RecordLayout ==
    \A call \in KeyRingCalls :
        /\ call.payload.kver = 1
        /\ call.payload.security_index = 2
        /\ call.payload.kvno = 256
        /\ call.payload.expiry = creds.endtime
        /\ call.payload.ticket_length = creds.ticket.length
        /\ call.payload.ticket = creds.ticket
        /\ call.plen = 24 + creds.ticket.length

(* C8: for every 8-byte block k the parity stripper gives 7 bytes r with   *)
(* r[i] = (k[i] with its low bit cleared) OR bit i+1 of k[7]; the low bits *)
(* of k[0..6] and bit 0 of k[7] do not influence r.                        *)
C8_StripParity ==
    (pc = "des3_loop" /\ uw.new_len > 0) =>
        LET k == Slice(origKey, uw.key - 8, 8)
            r == Slice(creds.contents, uw.random - 7, 7)
        IN  /\ \A i \in 0..6 : r[i] = (k[i] - (k[i] % 2)) + Bit(k[7], i + 1)
            /\ des3_strip_parity_bits(k) = r
            /\ \A i \in 0..7 : des3_strip_parity_bits([k EXCEPT ![i] = FlipLow(@)]) = r

C8_Witness ==
    /\ pc = "des3_loop"
    /\ uw.new_len = 14
    /\ origKey[uw.key - 8] % 2 = 0
    /\ creds.contents[uw.random - 7] % 2 = 1
    /\ origKey[uw.key - 7] % 2 = 1
    /\ creds.contents[uw.random - 6] % 2 = 0

(* C9: the in-place unweave reads only bytes it has not yet overwritten,   *)
(* so the key block it leaves equals the unweave of the original key into  *)
(* a separate buffer, block by block; the key-block length becomes the     *)
(* unweaved length, and that prefix is the HMAC key the KDF uses.          *)
C9_InPlaceUnweave ==
    /\ readsClean
    /\ \A q \in uw.written : creds.contents[q] = sepOut[q]
    /\ path = "Unweave" =>
          \A j \in 0..((uw.new_len \div 7) - 1) :
              Slice(sepOut, 7 * j, 7) = des3_strip_parity_bits(Slice(origKey, 8 * j, 8))
    /\ (path = "Unweave" /\ ~InUnweave) =>
          /\ creds.length = uw.new_len
          /\ Slice(creds.contents, 0, creds.length) = Slice(sepOut, 0, uw.new_len)
    /\ (path = "Unweave" /\ kdf.calls > 0) =>
          /\ lastHmac.keylen = uw.new_len
          /\ lastHmac.key = Slice(sepOut, 0, uw.new_len)

C9_Witness ==
    /\ path = "Unweave"
    /\ kdf.calls > 0
    /\ uw.new_len >= 14
    /\ lastHmac.key # Slice(origKey, 0, uw.new_len)

(* C10: with argc == 3 the realm is argv[2] as given, read from an index   *)
(* below argc; with argc == 2 it is the cell name upper-cased; the cell is *)
(* lower-cased in both cases.                                              *)
C10_RealmArgument ==
    /\ (argc = 3 /\ argvRead # -1) => argvRead < argc
    /\ (argc = 3 /\ realm # NULL) => realm = ArgvAt(argv, 2)
    /\ (argc = 2 /\ realm # NULL) => realm = UpperStr(ArgvAt(argv, 1))
    /\ princ # NULL =>
          /\ cell = LowerStr(cell)
          /\ princ = PrincPrefix \o cell \o AtSign \o realm

====
